---- MODULE Spec2Model ----
(***************************************************************************)
(* Model of python.py: the PythonProject settings class, its setup steps   *)
(* and the __main__ sequence that calls them.                              *)
(*                                                                         *)
(* Text (str) is a sequence of characters, each character a one-element    *)
(* token; an argv is a sequence of such texts.  The file system is a       *)
(* function from the paths the script touches to nodes.                    *)
(***************************************************************************)
EXTENDS Integers, Sequences, FiniteSets, TLC

VARIABLES name, description, type, fs, cmds, log, pc, exitCode

vars == <<name, description, type, fs, cmds, log, pc, exitCode>>

(***************************************************************************)
(* Bounds                                                                  *)
(***************************************************************************)
MaxNameLen == 2
MaxCalls == 2

\* Python's None, kept apart from every text: "None" is no character
None == <<"None">>

(***************************************************************************)
(* Text helpers                                                            *)
(***************************************************************************)
RECURSIVE Concat(_)
Concat(ss) == IF ss = <<>> THEN <<>> ELSE Head(ss) \o Concat(Tail(ss))

SeqsUpTo(S, n) == UNION {[1..k -> S] : k \in 0..n}

\* "U0130" is LATIN CAPITAL LETTER I WITH DOT ABOVE, whose lowercase is the two
\* code points "i" U+0307; "U2102" is DOUBLE-STRUCK CAPITAL C, an uppercase
\* letter that has no lowercase mapping.
UpperChars == {"A", "B", "U0130", "U2102"}

\* str.lower() on one character
LowerChar(c) ==
    CASE c = "A" -> <<"a">>
      [] c = "B" -> <<"b">>
      [] c = "U0130" -> <<"i", "U0307">>
      [] OTHER -> <<c>>

\* str.lower()
Lower(s) == Concat([i \in 1..Len(s) |-> LowerChar(s[i])])

\* str.replace(old, new) for a one-character old and new
Replace(s, old, new) == [i \in 1..Len(s) |-> IF s[i] = old THEN new ELSE s[i]]

\* truthiness of a str | None value: None and "" are false
Truthy(s) == s # None /\ s # <<>>

(***************************************************************************)
(* Derived names and paths                                                 *)
(***************************************************************************)
_underscored_name(n) == Lower(Replace(n, " ", "_"))

DashedNameNoLower(n) == Replace(n, " ", "-")
_dashed_name(n) == Lower(Replace(n, " ", "-"))

\* parent_path / dashed name, as the pair of its two components
_project_path(n) == <<"parent_path", _dashed_name(n)>>

(***************************************************************************)
(* Literal words of the command lines and texts                            *)
(***************************************************************************)
w_uv == <<"u", "v">>
w_init == <<"i", "n", "i", "t">>
w_add == <<"a", "d", "d">>
w_run == <<"r", "u", "n">>
w_git == <<"g", "i", "t">>
w_dev == <<"-", "-", "d", "e", "v">>
w_author_from == <<"-", "-", "a", "u", "t", "h", "o", "r", "-", "f", "r", "o", "m">>
w_description == <<"-", "-", "d", "e", "s", "c", "r", "i", "p", "t", "i", "o", "n">>
w_pre_commit == <<"p", "r", "e", "-", "c", "o", "m", "m", "i", "t">>
w_install == <<"i", "n", "s", "t", "a", "l", "l">>
w_autoupdate == <<"a", "u", "t", "o", "u", "p", "d", "a", "t", "e">>
w_ruff == <<"r", "u", "f", "f">>
w_pylint == <<"p", "y", "l", "i", "n", "t">>
w_pytest == <<"p", "y", "t", "e", "s", "t">>
w_app == <<"a", "p", "p">>
w_package == <<"p", "a", "c", "k", "a", "g", "e">>
w_library == <<"l", "i", "b", "r", "a", "r", "y">>
w_foo == <<"f", "o", "o">>

\* the three documented project types (Field description and "choices")
ProjectTypes == {w_app, w_package, w_library}

\* the block create_gitignore puts in front of the downloaded template
MacBlock ==
    <<"#", " ", "M", "a", "c", " ", "O", "S", "\n",
      ".", "D", "S", "_", "S", "t", "o", "r", "e", "\n", "\n">>

(***************************************************************************)
(* File system                                                             *)
(***************************************************************************)
ProjectFiles == {"pyproject.toml", ".gitignore", ".pre-commit-config.yaml",
                 "README.md", ".git"}
TemplateFiles == {"files/.pre-commit-config.yaml", "files/ruff.toml"}
Paths == {"parent", "project"} \cup ProjectFiles \cup TemplateFiles

Absent == [kind |-> "absent", text |-> <<>>]
Dir == [kind |-> "dir", text |-> <<>>]
File(t) == [kind |-> "file", text |-> t]

IsDir(f, p) == f[p].kind = "dir"
IsFile(f, p) == f[p].kind = "file"
Exists(f, p) == f[p].kind # "absent"

\* the directory that holds p; parent_path's own parent and the program's
\* files directory always exist and are not tracked ("home")
ParentOf(p) ==
    CASE p = "project" -> "parent"
      [] p \in ProjectFiles -> "project"
      [] OTHER -> "home"

ParentIsDir(f, p) == ParentOf(p) = "home" \/ IsDir(f, ParentOf(p))
ParentExists(f, p) == ParentOf(p) = "home" \/ Exists(f, ParentOf(p))

WellFormed(f) == \A p \in Paths : Exists(f, p) => ParentIsDir(f, p)

\* the file-system key of a working directory
KeyOf(path) == IF Len(path) = 2 THEN "project" ELSE "parent"

Raise(f, why) == [fs |-> f, cmds |-> <<>>, outcome |-> why, io |-> <<>>]
Ok(f, c) == [fs |-> f, cmds |-> c, outcome |-> "ok", io |-> <<>>]

\* Path.mkdir(parents, exist_ok), as pathlib implements it on top of os.mkdir
RECURSIVE Mkdir(_, _, _, _)
Mkdir(f, p, parents, exist_ok) ==
    IF ~ParentExists(f, p)
    THEN \* os.mkdir: FileNotFoundError
         IF ~parents
         THEN Raise(f, "FileNotFoundError")
         ELSE LET up == Mkdir(f, ParentOf(p), TRUE, TRUE)
              IN  IF up.outcome # "ok" THEN up
                  ELSE Mkdir(up.fs, p, FALSE, exist_ok)
    ELSE IF ~ParentIsDir(f, p)
    THEN Raise(f, "NotADirectoryError")
    ELSE IF Exists(f, p)
    THEN \* os.mkdir: FileExistsError
         IF ~exist_ok \/ ~IsDir(f, p)
         THEN Raise(f, "FileExistsError")
         ELSE Ok(f, <<>>)
    ELSE Ok([f EXCEPT ![p] = Dir], <<>>)

\* open(path, "w") + write: Path.write_text
WriteText(f, p, t) ==
    IF ~ParentIsDir(f, p) THEN Raise(f, "FileNotFoundError")
    ELSE IF IsDir(f, p) THEN Raise(f, "IsADirectoryError")
    ELSE Ok([f EXCEPT ![p] = File(t)], <<>>)

\* Path.read_text: the text, or None when open() raises
ReadText(f, p) == IF IsFile(f, p) THEN f[p].text ELSE None

(***************************************************************************)
(* Helpers of the class                                                    *)
(***************************************************************************)
\* _append_to_file: open(file_path, "a") and write "\n" + content
AppendOverwrites(f, p, content) ==
    IF ~ParentIsDir(f, p) THEN Raise(f, "FileNotFoundError")
    ELSE IF IsDir(f, p) THEN Raise(f, "IsADirectoryError")
    ELSE Ok([f EXCEPT ![p] = File(<<"\n">> \o content)], <<>>)
_append_to_file(f, p, content) ==
    IF ~ParentIsDir(f, p) THEN Raise(f, "FileNotFoundError")
    ELSE IF IsDir(f, p) THEN Raise(f, "IsADirectoryError")
    ELSE Ok([f EXCEPT ![p] = File(f[p].text \o <<"\n">> \o content)], <<>>)

\* subprocess.run(check=check) raises CalledProcessError, which _run re-raises
RunNeverRaises(rc, check) == FALSE
RunRaises(rc, check) == check /\ rc # 0

RunRetries(f, command, cwd, check, rc, g) ==
    IF ~IsDir(f, KeyOf(cwd))
    THEN Raise(f, "FileNotFoundError")
    ELSE LET call == [argv |-> command, cwd |-> cwd, rc |-> rc]
         IN  IF RunRaises(rc, check)
             THEN [Raise(f, "CalledProcessError") EXCEPT !.cmds = <<call, call>>]
             ELSE Ok(IF rc = 0 THEN g ELSE f, <<call>>)

\* _run: the process is started in cwd (cwd or self._project_path()); g is the
\* file system the tool leaves when it exits 0.  A tool that exits non-zero is
\* taken to leave the tracked files alone.
_run(f, command, cwd, check, rc, g) ==
    IF ~IsDir(f, KeyOf(cwd))
    THEN Raise(f, "FileNotFoundError")
    ELSE LET call == [argv |-> command, cwd |-> cwd, rc |-> rc]
         IN  IF RunRaises(rc, check)
             THEN [Raise(f, "CalledProcessError") EXCEPT !.cmds = <<call>>]
             ELSE Ok(IF rc = 0 THEN g ELSE f, <<call>>)

\* exit codes a tool can end with, given whether it is able to succeed
ExitCodes(canSucceed) == IF canSucceed THEN {0, 1} ELSE {1}

\* shutil.copyfile(src, dst)
CopyFile(f, src, dst) ==
    IF ~IsFile(f, src) THEN Raise(f, "FileNotFoundError")
    ELSE WriteText(f, dst, f[src].text)

(***************************************************************************)
(* What the external tools and the network do (opaque collaborators)       *)
(***************************************************************************)
\* the manifest `uv init` writes
NewManifest == <<"p", "\n">>

\* `uv init <name>` in the parent directory: creates <name>/ with a
\* pyproject.toml and an empty README.md; refuses an initialized project
UvInitCan(f) == ~IsFile(f, "project") /\ ~Exists(f, "pyproject.toml")
UvInitEffect(f, x) ==
    [f EXCEPT !["project"] = Dir,
              !["pyproject.toml"] = File(x),
              !["README.md"] = IF Exists(f, "README.md") THEN @ ELSE File(<<>>)]

\* `git init`
GitInitEffect(f) == [f EXCEPT ![".git"] = IF Exists(f, ".git") THEN @ ELSE Dir]

\* `uv add [--dev] deps`: needs a manifest, records the dependencies in it
UvAddCan(f) == IsFile(f, "pyproject.toml")
UvAddEffect(f) == [f EXCEPT !["pyproject.toml"] = File(@.text \o <<"+">>)]

\* `uv run pre-commit install`: needs a git repository; writes under .git only
PreCommitInstallCan(f) == IsDir(f, ".git") /\ IsFile(f, "pyproject.toml")

\* `uv run pre-commit autoupdate`: rewrites the hook revisions of the config
PreCommitAutoupdateCan(f) ==
    IsFile(f, ".pre-commit-config.yaml") /\ IsFile(f, "pyproject.toml")
Updated(t) == IF t # <<>> /\ t[Len(t)] = "u" THEN t ELSE t \o <<"u">>
PreCommitAutoupdateEffects(f) ==
    {f, [f EXCEPT ![".pre-commit-config.yaml"] = File(Updated(@.text))]}

\* bodies the HTTP GET may return, as bytes; "C3" "A9" is the UTF-8 encoding
\* of U+00E9, "FF" is no valid UTF-8
Bodies == {<<"x", "\n">>, <<"C3", "A9", "x">>, <<"FF">>, <<"x", "C3">>}

\* bytes.decode("utf-8"): the text, or None for UnicodeDecodeError
RECURSIVE Decode(_)
Decode(b) ==
    IF b = <<>> THEN <<>>
    ELSE IF Head(b) \in {"x", "\n"}
    THEN LET rest == Decode(Tail(b))
         IN  IF rest = None THEN None ELSE <<Head(b)>> \o rest
    ELSE IF Head(b) = "C3" /\ Len(b) >= 2 /\ b[2] = "A9"
    THEN LET rest == Decode(Tail(Tail(b)))
         IN  IF rest = None THEN None ELSE <<"U00E9">> \o rest
    ELSE None

(***************************************************************************)
(* The setup steps.  Each gives the set of results the step can end with   *)
(* from file system f: the file system it leaves, the commands it ran and  *)
(* "ok" or the exception that left it, and what it read from the network.  *)
(***************************************************************************)
CreateProjectFolderNotExistOk(f) == {Mkdir(f, "project", TRUE, FALSE)}
create_project_folder(f) == {Mkdir(f, "project", TRUE, TRUE)}

add_dependencies(f, dependencies) ==
    {_run(f, <<w_uv, w_add>> \o dependencies, _project_path(name), TRUE, rc,
          UvAddEffect(f)) : rc \in ExitCodes(UvAddCan(f))}

add_dev_dependencies(f, dependencies) ==
    {_run(f, <<w_uv, w_add, w_dev>> \o dependencies, _project_path(name), TRUE, rc,
          UvAddEffect(f)) : rc \in ExitCodes(UvAddCan(f))}

initialize_git(f) ==
    {_run(f, <<w_git, w_init>>, _project_path(name), TRUE, rc, GitInitEffect(f)) :
        rc \in ExitCodes(TRUE)}

TypeFlag(t) == IF t # <<>> THEN <<<<"-", "-">> \o t>> ELSE <<>>

UvInitCommand ==
    <<w_uv, w_init, _dashed_name(name), w_author_from, w_git>>
        \o TypeFlag(type)
        \o (IF Truthy(description) THEN <<w_description, description>> ELSE <<>>)

initialize_uv(f) ==
    {_run(f, UvInitCommand, SubSeq(_project_path(name), 1, 1), TRUE, rc,
          UvInitEffect(f, NewManifest)) : rc \in ExitCodes(UvInitCan(f))}

install_development_dependencies(f) ==
    add_dev_dependencies(f, <<w_ruff, w_pylint, w_pre_commit, w_pytest>>)

configure_precommit(f) ==
    LET copied == CopyFile(f, "files/.pre-commit-config.yaml", ".pre-commit-config.yaml")
        install(g) ==
            {_run(g, <<w_uv, w_run, w_pre_commit, w_install>>, _project_path(name),
                  TRUE, rc, g) : rc \in ExitCodes(PreCommitInstallCan(g))}
        autoupdate(g) ==
            {_run(g, <<w_uv, w_run, w_pre_commit, w_autoupdate>>,
                  _project_path(name), TRUE, rc, h) :
                rc \in ExitCodes(PreCommitAutoupdateCan(g)),
                h \in PreCommitAutoupdateEffects(g)}
    IN  IF copied.outcome # "ok" THEN {copied}
        ELSE UNION {IF r1.outcome # "ok" THEN {r1}
                    ELSE {[r2 EXCEPT !.cmds = r1.cmds \o r2.cmds] :
                             r2 \in autoupdate(r1.fs)} :
                       r1 \in install(copied.fs)}

GitignoreNoBlankLine(t) == SubSeq(MacBlock, 1, Len(MacBlock) - 1) \o t
GitignoreText(t) == MacBlock \o t

\* response is None when urlopen raises (URLError, HTTPError), else the body
create_gitignore(f) ==
    {[(IF response = None THEN Raise(f, "URLError")
       ELSE IF Decode(response) = None THEN Raise(f, "UnicodeDecodeError")
       ELSE WriteText(f, ".gitignore", GitignoreText(Decode(response))))
      EXCEPT !.io = response] : response \in {None} \cup Bodies}

configure_ruff(f) ==
    LET ruff_config_string == ReadText(f, "files/ruff.toml")
    IN  {IF ruff_config_string = None THEN Raise(f, "FileNotFoundError")
         ELSE _append_to_file(f, "pyproject.toml", ruff_config_string)}

ReadmeTextAlways(n, d) == <<"#", " ">> \o n \o <<"\n">> \o d \o <<"\n">>
ReadmeText(n, d) ==
    <<"#", " ">> \o n \o <<"\n">> \o (IF Truthy(d) THEN d \o <<"\n">> ELSE <<>>)

update_readme(f) == {WriteText(f, "README.md", ReadmeText(name, description))}

(***************************************************************************)
(* Inputs                                                                  *)
(***************************************************************************)
NameChars == {"A", " ", "U0130", "U2102"}
Names == SeqsUpTo(NameChars, MaxNameLen) \ {<<>>}
Descriptions == {None, <<>>, <<"d">>}
\* type is a plain str field: any text is accepted
Types == ProjectTypes \cup {<<>>, w_foo}

MkFs(par, proj, man, readme, hooks, ruff) ==
    [p \in Paths |->
        CASE p = "parent" -> par
          [] p = "project" -> proj
          [] p = "pyproject.toml" -> man
          [] p = "README.md" -> readme
          [] p = "files/.pre-commit-config.yaml" -> hooks
          [] p = "files/ruff.toml" -> ruff
          [] OTHER -> Absent]

InitFs ==
    {f \in {MkFs(par, proj, man, readme, hooks, ruff) :
                par \in {Absent, Dir},
                proj \in {Absent, Dir, File(<<>>)},
                man \in {Absent, File(<<"p">>), File(NewManifest)},
                readme \in {Absent, File(<<"o">>)},
                hooks \in {Absent, File(<<"h">>)},
                ruff \in {Absent, File(<<"r">>), File(<<"\n", "y">>)}} : WellFormed(f)}

\* PythonProject(): the settings object, and the world it runs in
Construct ==
    /\ name \in Names
    /\ description \in Descriptions
    /\ type \in Types
    /\ fs \in InitFs
    /\ cmds = <<>>
    /\ log = <<>>
    /\ exitCode = <<>>

(***************************************************************************)
(* __main__: the steps in the order the script calls them                  *)
(***************************************************************************)
StepsGitFirst ==
    <<"initialize_git", "initialize_uv", "create_gitignore",
      "install_development_dependencies", "configure_precommit",
      "configure_ruff", "update_readme">>
Steps ==
    <<"initialize_uv", "initialize_git", "create_gitignore",
      "install_development_dependencies", "configure_precommit",
      "configure_ruff", "update_readme">>

IndexOf(step) == CHOOSE i \in 1..Len(Steps) : Steps[i] = step

AfterSkipsOne(step) ==
    IF IndexOf(step) + 1 >= Len(Steps) THEN "done" ELSE Steps[IndexOf(step) + 2]
After(step) ==
    IF IndexOf(step) = Len(Steps) THEN "done" ELSE Steps[IndexOf(step) + 1]

Init == Construct /\ pc = Steps[1]

\* One statement of __main__: the step runs to its end; an exception is not
\* caught anywhere, so the interpreter exits with code 1
Main(step, results) ==
    /\ pc = step
    /\ \E r \in results :
        /\ fs' = r.fs
        /\ cmds' = cmds \o r.cmds
        /\ log' = Append(log, [step |-> step, outcome |-> r.outcome,
                                before |-> fs, io |-> r.io])
        /\ pc' = IF r.outcome = "ok" THEN After(step) ELSE "failed"
        /\ exitCode' = IF r.outcome # "ok" THEN <<1>>
                       ELSE IF After(step) = "done" THEN <<0>> ELSE <<>>
    /\ UNCHANGED <<name, description, type>>

MainInitializeUv == Main("initialize_uv", initialize_uv(fs))
MainInitializeGit == Main("initialize_git", initialize_git(fs))
MainCreateGitignore == Main("create_gitignore", create_gitignore(fs))
MainInstallDevelopmentDependencies ==
    Main("install_development_dependencies", install_development_dependencies(fs))
MainConfigurePrecommit == Main("configure_precommit", configure_precommit(fs))
MainConfigureRuff == Main("configure_ruff", configure_ruff(fs))
MainUpdateReadme == Main("update_readme", update_readme(fs))

Next ==
    \/ MainInitializeUv
    \/ MainInitializeGit
    \/ MainCreateGitignore
    \/ MainInstallDevelopmentDependencies
    \/ MainConfigurePrecommit
    \/ MainConfigureRuff
    \/ MainUpdateReadme

Spec == Init /\ [][Next]_vars

(***************************************************************************)
(* A caller that constructs the settings and calls the public methods in   *)
(* any order, at most MaxCalls times                                       *)
(***************************************************************************)
InitCalls == Construct /\ type = w_app /\ pc = "calls"

Call(step, results) ==
    /\ pc = "calls"
    /\ Len(log) < MaxCalls
    /\ \E r \in results :
        /\ fs' = r.fs
        /\ cmds' = cmds \o r.cmds
        /\ log' = Append(log, [step |-> step, outcome |-> r.outcome,
                                before |-> fs, io |-> r.io])
    /\ UNCHANGED <<name, description, type, pc, exitCode>>

CallCreateProjectFolder == Call("create_project_folder", create_project_folder(fs))
CallConfigureRuff == Call("configure_ruff", configure_ruff(fs))
CallUpdateReadme == Call("update_readme", update_readme(fs))

NextCalls ==
    \/ CallCreateProjectFolder
    \/ CallConfigureRuff
    \/ CallUpdateReadme

SpecCalls == InitCalls /\ [][NextCalls]_vars

(***************************************************************************)
(* Properties                                                              *)
(***************************************************************************)
Last == log[Len(log)]
Ran(i, step) == i \in 1..Len(log) /\ log[i].step = step
Succeeded(i, step) == Ran(i, step) /\ log[i].outcome = "ok"
\* the file system step i left
AfterStep(i) == IF i = Len(log) THEN fs ELSE log[i + 1].before
SameExcept(f, g, ps) == \A p \in Paths \ ps : f[p] = g[p]

\* C1: in the __main__ sequence a step that fails (a tool exits non-zero,
\* the fetch fails, a file operation fails) is the last step attempted, and
\* the run ends with a non-zero exit code.
C1_FailFast ==
    /\ \A i \in 1..Len(log) :
          log[i].outcome # "ok" =>
              /\ i = Len(log)
              /\ pc = "failed"
              /\ exitCode # <<>> /\ exitCode[1] # 0
    /\ \A k \in 1..Len(cmds) :
          cmds[k].rc # 0 =>
              /\ k = Len(cmds)
              /\ pc = "failed"
              /\ Last.outcome = "CalledProcessError"
              /\ exitCode # <<>> /\ exitCode[1] # 0

C1_Witness ==
    /\ pc = "failed"
    /\ Len(log) = 4
    /\ Last.outcome = "CalledProcessError"
    /\ cmds[Len(cmds)].rc # 0

\* C2: the steps run in the order of __main__, each once, one after the
\* other; a run in which none fails performs all seven and exits with 0.
C2_Order ==
    /\ \A i \in 1..Len(log) : i <= Len(Steps) /\ log[i].step = Steps[i]
    /\ \A i \in 1..(Len(log) - 1) : log[i].outcome = "ok"
    /\ pc \notin {"done", "failed"} => pc = Steps[Len(log) + 1]
    /\ pc = "done" <=> (Len(log) = Len(Steps) /\ Last.outcome = "ok")
    /\ pc = "done" =>
          /\ exitCode = <<0>>
          /\ [k \in 1..Len(cmds) |-> SubSeq(cmds[k].argv, 1, 2)]
                = <<(<<w_uv, w_init>>), <<w_git, w_init>>, <<w_uv, w_add>>,
                    <<w_uv, w_run>>, <<w_uv, w_run>>>>

C2_Witness == pc = "done" /\ exitCode = <<0>> /\ Len(log) = 7

NoCommandTwice == \A j, k \in 1..Len(cmds) : cmds[j].argv = cmds[k].argv => j = k

C4_CreateFolderIdempotent ==
    \A i \in 1..Len(log) :
        Ran(i, "create_project_folder") =>
            LET b == log[i].before
                a == AfterStep(i)
            IN  /\ (~Exists(b, "project") /\ ~IsFile(b, "parent")) =>
                      /\ log[i].outcome = "ok"
                      /\ IsDir(a, "project") /\ IsDir(a, "parent")
                      /\ SameExcept(a, b, {"project", "parent"})
                      /\ Exists(b, "parent") => a["parent"] = b["parent"]
                /\ IsDir(b, "project") => (log[i].outcome = "ok" /\ a = b)
                /\ (i > 1 /\ Succeeded(i - 1, "create_project_folder")) =>
                      (log[i].outcome = "ok" /\ a = b /\ IsDir(a, "project"))

C4_Witness ==
    /\ Len(log) = 2
    /\ Succeeded(1, "create_project_folder")
    /\ Succeeded(2, "create_project_folder")
    /\ ~Exists(log[1].before, "parent")
    /\ IsDir(fs, "project")
    /\ fs = log[2].before

\* C5: configure_ruff on a manifest with text X and a template with text Y
\* leaves the manifest with X, one newline, Y, and every other file as it was.
C5_RuffAppends ==
    \A i \in 1..Len(log) :
        (/\ Ran(i, "configure_ruff")
         /\ IsFile(log[i].before, "pyproject.toml")
         /\ IsFile(log[i].before, "files/ruff.toml")) =>
            LET X == log[i].before["pyproject.toml"].text
                Y == log[i].before["files/ruff.toml"].text
                a == AfterStep(i)
            IN  /\ log[i].outcome = "ok"
                /\ IsFile(a, "pyproject.toml")
                /\ a["pyproject.toml"].text = X \o <<"\n">> \o Y
                /\ SameExcept(a, log[i].before, {"pyproject.toml"})

C5_Witness ==
    /\ Len(log) = 2
    /\ Succeeded(1, "configure_ruff")
    /\ Succeeded(2, "configure_ruff")
    /\ log[1].before["pyproject.toml"].text = <<"p">>
    /\ fs["pyproject.toml"].text = <<"p", "\n", "r", "\n", "r">>

\* C6 as stated: the README is "# " name newline when description is None
\* and "# " name newline description newline when a description is given.
C6_AsStated ==
    \A i \in 1..Len(log) :
        Succeeded(i, "update_readme") =>
            AfterStep(i)["README.md"].text =
                IF description = None
                THEN <<"#", " ">> \o name \o <<"\n">>
                ELSE <<"#", " ">> \o name \o <<"\n">> \o description \o <<"\n">>

\* C6, amended: the README is "# " name newline when the description is None
\* or empty, and "# " name newline description newline when the description
\* is a non-empty text; earlier content is replaced, so a second
\* update_readme leaves the file system as the first left it.
C6_Readme ==
    \A i \in 1..Len(log) :
        Ran(i, "update_readme") =>
            LET a == AfterStep(i)
            IN  /\ log[i].outcome = "ok" <=>
                      (IsDir(log[i].before, "project")
                          /\ ~IsDir(log[i].before, "README.md"))
                /\ log[i].outcome = "ok" =>
                      /\ IsFile(a, "README.md")
                      /\ a["README.md"].text =
                            IF description = None \/ description = <<>>
                            THEN <<"#", " ">> \o name \o <<"\n">>
                            ELSE <<"#", " ">> \o name \o <<"\n">>
                                    \o description \o <<"\n">>
                      /\ SameExcept(a, log[i].before, {"README.md"})
                /\ (i > 1 /\ Succeeded(i - 1, "update_readme")) =>
                      (log[i].outcome = "ok" /\ a = log[i].before)

C6_Witness ==
    /\ Len(log) = 2
    /\ Succeeded(1, "update_readme")
    /\ Succeeded(2, "update_readme")
    /\ log[1].before["README.md"] = File(<<"o">>)
    /\ description = <<"d">>
    /\ name = <<"A", " ">>
    /\ fs["README.md"].text = <<"#", " ", "A", " ", "\n", "d", "\n">>

\* the two lines "# Mac OS" and ".DS_Store"
MacOsLines ==
    <<"#", " ", "M", "a", "c", " ", "O", "S", "\n">>
        \o <<".", "D", "S", "_", "S", "t", "o", "r", "e", "\n">>

\* C7 as stated: .gitignore is the two Mac OS lines followed by the fetched
\* template text T as the rest of the file; a failed fetch writes nothing.
C7_AsStated ==
    \A i \in 1..Len(log) :
        Ran(i, "create_gitignore") =>
            /\ log[i].outcome = "ok" =>
                  AfterStep(i)[".gitignore"].text = MacOsLines \o Decode(log[i].io)
            /\ log[i].outcome = "URLError" => AfterStep(i) = log[i].before

\* C7, amended: .gitignore is the two Mac OS lines, then one empty line, then
\* the fetched template text T unmodified as the rest of the file; when the
\* fetch fails (or its body is no UTF-8) the step fails and writes nothing.
C7_Gitignore ==
    \A i \in 1..Len(log) :
        Ran(i, "create_gitignore") =>
            LET a == AfterStep(i)
                T == Decode(log[i].io)
            IN  /\ log[i].io = None <=> log[i].outcome = "URLError"
                /\ (log[i].io # None /\ T = None) =>
                      log[i].outcome = "UnicodeDecodeError"
                /\ log[i].outcome = "ok" =>
                      /\ IsFile(a, ".gitignore")
                      /\ a[".gitignore"].text = MacOsLines \o <<"\n">> \o T
                      /\ SameExcept(a, log[i].before, {".gitignore"})
                /\ log[i].outcome # "ok" =>
                      (a = log[i].before /\ i = Len(log) /\ pc = "failed")

C7_Witness ==
    /\ Succeeded(3, "create_gitignore")
    /\ log[3].io = <<"C3", "A9", "x">>
    /\ Len(fs[".gitignore"].text) = Len(MacOsLines) + 3

\* C8 as stated: both derived forms have the length of the name, no space and
\* no uppercase letter; the hyphenated form has "-" and the underscored form
\* "_" where the name has a space.
C8_AsStated ==
    LET d == _dashed_name(name)
        u == _underscored_name(name)
    IN  Succeeded(1, "initialize_uv") =>
            /\ cmds[1].argv[3] = d
            /\ Len(d) = Len(name) /\ Len(u) = Len(name)
            /\ \A i \in 1..Len(d) : d[i] \notin UpperChars \cup {" "}
            /\ \A i \in 1..Len(u) : u[i] \notin UpperChars \cup {" "}
            /\ \A i \in 1..Len(name) :
                  name[i] = " " => (d[i] = "-" /\ u[i] = "_")

SingleLower == {"A", "B"}
NoLower == {"U2102"}
Plain(n) == \A i \in 1..Len(n) : n[i] \notin UpperChars \ SingleLower

\* C8, amended: the hyphenated form is the name with every space replaced by
\* a hyphen, the underscored form the name with every space replaced by an
\* underscore, each then lowercased by str.lower(): neither contains a space
\* or a character that str.lower() would still change.  For a name whose
\* uppercase letters each have a one-character lowercase form (every ASCII
\* name) both have the length of the name and no uppercase letter; U+0130
\* lowercases to two code points, so the forms are longer than such a name,
\* and an uppercase letter without lowercase mapping (U+2102) stays.  The
\* project path is parent_path / hyphenated form, computed from the name at
\* each use.
C8_DerivedNames ==
    LET d == _dashed_name(name)
        u == _underscored_name(name)
        n130 == Cardinality({i \in 1..Len(name) : name[i] = "U0130"})
    IN  /\ Len(d) = Len(name) + n130 /\ Len(u) = Len(name) + n130
        /\ \A i \in 1..Len(d) :
              /\ d[i] \notin {" ", "_"} \cup (UpperChars \ NoLower)
              /\ u[i] \notin {" ", "-"} \cup (UpperChars \ NoLower)
              /\ d[i] = "-" <=> u[i] = "_"
              /\ d[i] # "-" => u[i] = d[i]
        /\ Plain(name) =>
              \A i \in 1..Len(name) :
                  /\ d[i] \notin UpperChars /\ u[i] \notin UpperChars
                  /\ name[i] = " " <=> d[i] = "-"
                  /\ name[i] = "A" <=> d[i] = "a"
        /\ name[1] = "U0130" => (d[1] = "i" /\ d[2] = "U0307")
        /\ \A i \in 1..Len(name) :
              name[i] = "U2102" => \E j \in i..Len(d) : d[j] = "U2102"
        /\ \A k \in 1..Len(cmds) :
              /\ cmds[k].cwd \in {<<"parent_path">>, <<"parent_path", d>>}
              /\ cmds[k].argv[2] = w_init /\ cmds[k].argv[1] = w_uv
                    => cmds[k].argv[3] = d

C8_Witness ==
    /\ name = <<"A", " ">>
    /\ Succeeded(2, "initialize_git")
    /\ cmds[1].argv[3] = <<"a", "-">>
    /\ cmds[2].cwd = <<"parent_path", <<"a", "-">>>>
    /\ _underscored_name(name) = <<"a", "_">>

TypeFlags == {<<"-", "-">> \o t : t \in ProjectTypes}

\* C9: the project type is app, package or library, and the `uv init` command
\* carries exactly one type flag, one of --app, --package, --library.
C9_TypeFlag ==
    \A k \in 1..Len(cmds) :
        (cmds[k].argv[1] = w_uv /\ cmds[k].argv[2] = w_init) =>
            /\ type \in ProjectTypes
            /\ Cardinality({i \in 1..Len(cmds[k].argv) :
                               /\ Len(cmds[k].argv[i]) > 2
                               /\ SubSeq(cmds[k].argv[i], 1, 2) = <<"-", "-">>
                               /\ cmds[k].argv[i] \notin {w_author_from, w_description}})
                  = 1
            /\ Len(cmds[k].argv) >= 6
            /\ cmds[k].argv[6] \in TypeFlags

====
